---- MODULE Spec2Model ----
(***************************************************************************)
(* aws-ip-provisioner: command::execute (src/aws-ip-provisioner/src/       *)
(* command.rs).  One run of execute is a process that walks through the    *)
(* calls of the function body in program order; every call that can fail   *)
(* (the `?` operator) is one step with a success and a failure outcome.    *)
(* The local record file, the provider's address set and the provider's    *)
(* association relation are shared by all runs.                            *)
(***************************************************************************)
EXTENDS Integers, Sequences, FiniteSets, TLC

\* ---------------------------------------------------------------- bounds
\* Addresses that exist in the provider before the first run (created by
\* other tooling or by earlier lives of the node).
NumForeign == 2
\* Provider quota: how many addresses allocate_eip can still create.
MaxCreated == 2

Procs == {1, 2}
\* Runs of the sequential specifications are runs of this process.
SeqProcs == {1}

\* fetch_instance_id() answers with the identity of the instance the
\* program runs on; the other identity is an instance the volume or an
\* address was attached to before.
ThisInstance == "i-this"
OtherInstance == "i-other"
Instances == {ThisInstance, OtherInstance}
NoInstance == "none"

\* Flags.id_tag_key/value and Flags.kind_tag_key/value.
OwnTags == {<<"Id", "TEST-ID">>, <<"Kind", "aws-ip-provisioner">>}
ForeignTags == {<<"Name", "other">>}

\* Flags.initial_wait_random_seconds values explored.
JitterChoices == {0, 1, 3, 2147483647}
\* Values random_manager::u32() is drawn from (a u32; the largest value here
\* is the largest integer the model checker represents, 2^31 - 1).
RandomU32 == {0, 1, 2, 5, 2147483647}

\* The address value the provider gives to the address with this id.
IpOf(id) == 100 + id
\* An address value recorded in the file that the provider no longer reports.
StaleIp == IpOf(0)

VARIABLES
    file,         \* content of mounted_eip_file_path
    addrs,        \* the provider's address resources
    assoc,        \* the provider's association relation: <<allocation_id, instance>>
    maxJitter,    \* opts.initial_wait_random_seconds
    pc,           \* position of each run in execute
    result,       \* how the last run of each process ended
    inst,         \* ec2_instance_id
    sleep_sec,    \* sleep_sec
    eip,          \* eip
    eips,         \* eips
    need,         \* need_associate_eip
    calls,        \* calls issued by the current run, in order
    assocArgs,    \* arguments of the associate_eip calls of the current run
    failedAt,     \* the call of the current run that returned Err
    created,      \* allocation ids created by allocate_eip, over all runs
    fileAtStart,  \* file content when the current run started
    assocAtStart, \* association relation when the current run started
    prevOk,       \* the run before the current one returned Ok
    prevAllocated, \* the id the run before allocated, when its associate_eip then failed
    assocInit     \* association relation before the first run

envVars == <<file, addrs, assoc, created, assocInit>>
locVars == <<inst, sleep_sec, eip, eips, need>>
histVars == <<calls, assocArgs, failedAt, fileAtStart, assocAtStart, prevOk, prevAllocated>>
vars == <<file, addrs, assoc, maxJitter, pc, result, inst, sleep_sec, eip, eips,
          need, calls, assocArgs, failedAt, created, fileAtStart, assocAtStart,
          prevOk, prevAllocated, assocInit>>

\* ------------------------------------------------------------ data model
NoFile == [state |-> "absent", allocation_id |-> 0, public_ip |-> 0]
CorruptFile == [state |-> "corrupt", allocation_id |-> 0, public_ip |-> 0]
\* Eip::sync writes the record's two fields; Eip::load reads them back.
FileOf(e) == [state |-> "valid", allocation_id |-> e.allocation_id,
              public_ip |-> e.public_ip]
\* Mutation: the two fields of the record are read in the wrong order.
EipOfSwapped(f) == [allocation_id |-> f.public_ip, public_ip |-> f.allocation_id]

EipOf(f) == [allocation_id |-> f.allocation_id, public_ip |-> f.public_ip]
NoEip == [allocation_id |-> 0, public_ip |-> 0]

Address(id, tags) == [allocation_id |-> id, public_ip |-> IpOf(id), tags |-> tags]

\* All orderings of a finite set, as sequences (the order of a provider
\* response is not specified).
Orderings(S) ==
    {s \in [1..Cardinality(S) -> S] : \A i, j \in 1..Cardinality(S) :
                                         s[i] = s[j] => i = j}

\* What describe_eips_by_instance_id(instance) reports.
AssociatedWith(instance) ==
    {a \in addrs : <<a.allocation_id, instance>> \in assoc}

Count(seq, x) == Cardinality({i \in 1..Len(seq) : seq[i] = x})

\* ------------------------------------------------------ pure computations
\* Mutation: the bound is taken as inclusive.
SleepSecInclusive(n, r) == IF n > 0 THEN (r % n) + 1 ELSE 0

\* command.rs:131-135
SleepSec(n, r) == IF n > 0 THEN r % n ELSE 0

\* command.rs:203-212: the scan of eips, stopping at the first match.
RECURSIVE ScanFrom(_, _, _)
ScanFrom(evs, own, i) ==
    IF i > Len(evs) THEN FALSE
    ELSE IF evs[i].allocation_id = own.allocation_id THEN TRUE
    ELSE ScanFrom(evs, own, i + 1)

\* Mutation: only the first entry of the answer is compared.
FoundFirstOnly(evs, own) ==
    Len(evs) > 0 /\ evs[1].allocation_id = own.allocation_id

Found(evs, own) == ScanFrom(evs, own, 1)

\* Mutation: the association is requested whatever the lookup answered.
NeedAssociateAlways(evs, own) == TRUE

\* Mutation: an empty answer is taken for "nothing to do".
NeedAssociateSkipEmpty(evs, own) == IF Len(evs) = 0 THEN FALSE ELSE ~Found(evs, own)

\* command.rs:195-214
NeedAssociate(evs, own) == IF Len(evs) = 0 THEN TRUE ELSE ~Found(evs, own)

\* ------------------------------------------------------------------ Init
Init ==
    /\ \E n \in 0..NumForeign :
         /\ addrs = {Address(id, ForeignTags) : id \in 1..n}
         /\ \E owner \in [1..n -> Instances \cup {NoInstance}] :
              assoc = {<<id, owner[id]>> : id \in {i \in 1..n : owner[i] # NoInstance}}
         /\ file \in {NoFile, CorruptFile}
                \cup {FileOf([allocation_id |-> id, public_ip |-> ip]) :
                        id \in 1..n, ip \in {StaleIp} \cup {IpOf(i) : i \in 1..n}}
    /\ maxJitter \in JitterChoices
    /\ pc = [p \in Procs |-> "idle"]
    /\ result = [p \in Procs |-> "none"]
    /\ inst = [p \in Procs |-> NoInstance]
    /\ sleep_sec = [p \in Procs |-> 0]
    /\ eip = [p \in Procs |-> NoEip]
    /\ eips = [p \in Procs |-> <<>>]
    /\ need = [p \in Procs |-> FALSE]
    /\ calls = [p \in Procs |-> <<>>]
    /\ assocArgs = [p \in Procs |-> <<>>]
    /\ failedAt = [p \in Procs |-> "none"]
    /\ created = {}
    /\ fileAtStart = [p \in Procs |-> NoFile]
    /\ assocAtStart = [p \in Procs |-> {}]
    /\ prevOk = [p \in Procs |-> FALSE]
    /\ prevAllocated = [p \in Procs |-> 0]
    /\ assocInit = assoc

\* --------------------------------------------------------------- helpers
Called(p, name) == calls' = [calls EXCEPT ![p] = Append(@, name)]

\* `?` on an Err: execute returns the error, main exits non-zero.
Fail(p, name) ==
    /\ pc' = [pc EXCEPT ![p] = "done"]
    /\ result' = [result EXCEPT ![p] = "err"]
    /\ failedAt' = [failedAt EXCEPT ![p] = name]

Goto(p, label) ==
    /\ pc' = [pc EXCEPT ![p] = label]
    /\ UNCHANGED <<result, failedAt>>

\* command.rs:231-232
ReturnOk(p) ==
    /\ pc' = [pc EXCEPT ![p] = "done"]
    /\ result' = [result EXCEPT ![p] = "ok"]
    /\ UNCHANGED failedAt

\* --------------------------------------------------------------- actions
\* main.rs:40 -- the process is started.
Start(p) ==
    /\ pc[p] \in {"idle", "done"}
    /\ pc' = [pc EXCEPT ![p] = "config"]
    /\ result' = [result EXCEPT ![p] = "running"]
    /\ inst' = [inst EXCEPT ![p] = NoInstance]
    /\ sleep_sec' = [sleep_sec EXCEPT ![p] = 0]
    /\ eip' = [eip EXCEPT ![p] = NoEip]
    /\ eips' = [eips EXCEPT ![p] = <<>>]
    /\ need' = [need EXCEPT ![p] = FALSE]
    /\ calls' = [calls EXCEPT ![p] = <<>>]
    /\ assocArgs' = [assocArgs EXCEPT ![p] = <<>>]
    /\ failedAt' = [failedAt EXCEPT ![p] = "none"]
    /\ fileAtStart' = [fileAtStart EXCEPT ![p] = file]
    /\ assocAtStart' = [assocAtStart EXCEPT ![p] = assoc]
    /\ prevOk' = [prevOk EXCEPT ![p] = (result[p] = "ok")]
    /\ prevAllocated' = [prevAllocated EXCEPT ![p] =
            IF failedAt[p] = "associate_eip" /\ Count(calls[p], "allocate_eip") = 1
                THEN eip[p].allocation_id ELSE 0]
    /\ UNCHANGED <<envVars, maxJitter>>

\* command.rs:121
LoadConfigOk(p) ==
    /\ pc[p] = "config"
    /\ Called(p, "load_config")
    /\ Goto(p, "resolve")
    /\ UNCHANGED <<envVars, maxJitter, locVars, assocArgs, fileAtStart,
                   assocAtStart, prevOk, prevAllocated>>

LoadConfigFail(p) ==
    /\ pc[p] = "config"
    /\ Called(p, "load_config")
    /\ Fail(p, "load_config")
    /\ UNCHANGED <<envVars, maxJitter, locVars, assocArgs, fileAtStart,
                   assocAtStart, prevOk, prevAllocated>>

\* command.rs:124-129
ResolveOk(p) ==
    /\ pc[p] = "resolve"
    /\ Called(p, "fetch_instance_id")
    /\ inst' = [inst EXCEPT ![p] = ThisInstance]
    /\ Goto(p, "jitter")
    /\ UNCHANGED <<envVars, maxJitter, sleep_sec, eip, eips, need, assocArgs,
                   fileAtStart, assocAtStart, prevOk, prevAllocated>>

ResolveFail(p) ==
    /\ pc[p] = "resolve"
    /\ Called(p, "fetch_instance_id")
    /\ Fail(p, "fetch_instance_id")
    /\ UNCHANGED <<envVars, maxJitter, locVars, assocArgs, fileAtStart,
                   assocAtStart, prevOk, prevAllocated>>

\* command.rs:131-141
Jitter(p) ==
    /\ pc[p] = "jitter"
    /\ \E r \in RandomU32 :
         /\ sleep_sec' = [sleep_sec EXCEPT ![p] = SleepSec(maxJitter, r)]
         /\ IF SleepSec(maxJitter, r) > 0
              THEN Called(p, "sleep")
              ELSE UNCHANGED calls
    /\ Goto(p, "exists")
    /\ UNCHANGED <<envVars, maxJitter, inst, eip, eips, need, assocArgs,
                   fileAtStart, assocAtStart, prevOk, prevAllocated>>

\* Mutation: the existence check is lost and every run allocates.
ExistsIgnored(p) ==
    /\ pc[p] = "exists"
    /\ Goto(p, "allocate")
    /\ UNCHANGED <<envVars, maxJitter, locVars, histVars>>

\* command.rs:148, 155
Exists(p) ==
    /\ pc[p] = "exists"
    /\ IF file.state # "absent" THEN Goto(p, "load") ELSE Goto(p, "allocate")
    /\ UNCHANGED <<envVars, maxJitter, locVars, histVars>>

\* Mutation: a loaded record is not written back; the run goes on to the lookup.
LoadOkSkipSync(p) ==
    /\ pc[p] = "load"
    /\ file.state = "valid"
    /\ Called(p, "load")
    /\ eip' = [eip EXCEPT ![p] = EipOf(file)]
    /\ Goto(p, "lookup")
    /\ UNCHANGED <<envVars, maxJitter, inst, sleep_sec, eips, need, assocArgs,
                   fileAtStart, assocAtStart, prevOk, prevAllocated>>

\* command.rs:153-154
LoadOk(p) ==
    /\ pc[p] = "load"
    /\ file.state = "valid"
    /\ Called(p, "load")
    /\ eip' = [eip EXCEPT ![p] = EipOf(file)]
    /\ Goto(p, "sync")
    /\ UNCHANGED <<envVars, maxJitter, inst, sleep_sec, eips, need, assocArgs,
                   fileAtStart, assocAtStart, prevOk, prevAllocated>>

\* Mutation: a record that does not load is replaced by a fresh allocation.
LoadFailReallocate(p) ==
    /\ pc[p] = "load"
    /\ Called(p, "load")
    /\ Goto(p, "allocate")
    /\ UNCHANGED <<envVars, maxJitter, locVars, assocArgs, fileAtStart,
                   assocAtStart, prevOk, prevAllocated>>

\* command.rs:153-154: Eip::load returns Err (the content does not parse, or
\* the read fails) and `?` returns it.
LoadFail(p) ==
    /\ pc[p] = "load"
    /\ Called(p, "load")
    /\ Fail(p, "load")
    /\ UNCHANGED <<envVars, maxJitter, locVars, assocArgs, fileAtStart,
                   assocAtStart, prevOk, prevAllocated>>

\* Mutation: the kind tag pair is not passed on to the provider.
AllocateOkIdTagOnly(p) ==
    /\ pc[p] = "allocate"
    /\ Cardinality(created) < MaxCreated
    /\ Called(p, "allocate_eip")
    /\ LET id == Cardinality(addrs) + 1 IN
         /\ addrs' = addrs \cup {Address(id, {<<"Id", "TEST-ID">>})}
         /\ created' = created \cup {id}
         /\ eip' = [eip EXCEPT ![p] = [allocation_id |-> id, public_ip |-> IpOf(id)]]
    /\ Goto(p, "sync")
    /\ UNCHANGED <<file, assoc, assocInit, maxJitter, inst, sleep_sec, eips, need,
                   assocArgs, fileAtStart, assocAtStart, prevOk, prevAllocated>>

\* command.rs:157-164: the provider creates one address with both tag pairs.
AllocateOk(p) ==
    /\ pc[p] = "allocate"
    /\ Cardinality(created) < MaxCreated
    /\ Called(p, "allocate_eip")
    /\ LET id == Cardinality(addrs) + 1 IN
         /\ addrs' = addrs \cup {Address(id, OwnTags)}
         /\ created' = created \cup {id}
         /\ eip' = [eip EXCEPT ![p] = [allocation_id |-> id, public_ip |-> IpOf(id)]]
    /\ Goto(p, "sync")
    /\ UNCHANGED <<file, assoc, assocInit, maxJitter, inst, sleep_sec, eips, need, assocArgs,
                   fileAtStart, assocAtStart, prevOk, prevAllocated>>

\* command.rs:165-174
AllocateFail(p) ==
    /\ pc[p] = "allocate"
    /\ Called(p, "allocate_eip")
    /\ Fail(p, "allocate_eip")
    /\ UNCHANGED <<envVars, maxJitter, locVars, assocArgs, fileAtStart,
                   assocAtStart, prevOk, prevAllocated>>

\* Mutation: sync reports success without writing the record.
SyncOkNoWrite(p) ==
    /\ pc[p] = "sync"
    /\ Called(p, "sync")
    /\ Goto(p, "lookup")
    /\ UNCHANGED <<envVars, maxJitter, locVars, assocArgs, fileAtStart,
                   assocAtStart, prevOk, prevAllocated>>

\* command.rs:176
SyncOk(p) ==
    /\ pc[p] = "sync"
    /\ Called(p, "sync")
    /\ file' = FileOf(eip[p])
    /\ Goto(p, "lookup")
    /\ UNCHANGED <<addrs, assoc, created, assocInit, maxJitter, locVars, assocArgs,
                   fileAtStart, assocAtStart, prevOk, prevAllocated>>

\* Mutation: a failed write leaves a truncated file behind.
SyncFailCorrupts(p) ==
    /\ pc[p] = "sync"
    /\ Called(p, "sync")
    /\ file' = CorruptFile
    /\ Fail(p, "sync")
    /\ UNCHANGED <<addrs, assoc, created, assocInit, maxJitter, locVars, assocArgs,
                   fileAtStart, assocAtStart, prevOk, prevAllocated>>

\* command.rs:176: eip.sync returns Err and `?` returns it.
SyncFail(p) ==
    /\ pc[p] = "sync"
    /\ Called(p, "sync")
    /\ Fail(p, "sync")
    /\ UNCHANGED <<envVars, maxJitter, locVars, assocArgs, fileAtStart,
                   assocAtStart, prevOk, prevAllocated>>

\* command.rs:182-214: the lookup and the decision made from its answer.
LookupOk(p) ==
    /\ pc[p] = "lookup"
    /\ Called(p, "describe_eips_by_instance_id")
    /\ \E evs \in Orderings(AssociatedWith(inst[p])) :
         /\ eips' = [eips EXCEPT ![p] = evs]
         /\ need' = [need EXCEPT ![p] = NeedAssociate(evs, eip[p])]
         /\ IF NeedAssociate(evs, eip[p])
              THEN Goto(p, "associate")
              ELSE ReturnOk(p)
    /\ UNCHANGED <<envVars, maxJitter, inst, sleep_sec, eip, assocArgs,
                   fileAtStart, assocAtStart, prevOk, prevAllocated>>

\* Mutation: a failed lookup is taken for an empty answer and the run goes on.
LookupFailContinue(p) ==
    /\ pc[p] = "lookup"
    /\ Called(p, "describe_eips_by_instance_id")
    /\ failedAt' = [failedAt EXCEPT ![p] = "describe_eips_by_instance_id"]
    /\ need' = [need EXCEPT ![p] = TRUE]
    /\ pc' = [pc EXCEPT ![p] = "associate"]
    /\ UNCHANGED <<envVars, maxJitter, inst, sleep_sec, eip, eips, result, assocArgs,
                   fileAtStart, assocAtStart, prevOk, prevAllocated>>

\* command.rs:185-194
LookupFail(p) ==
    /\ pc[p] = "lookup"
    /\ Called(p, "describe_eips_by_instance_id")
    /\ Fail(p, "describe_eips_by_instance_id")
    /\ UNCHANGED <<envVars, maxJitter, locVars, assocArgs, fileAtStart,
                   assocAtStart, prevOk, prevAllocated>>

\* Mutation: the addresses found on the instance are disassociated first.
AssociateOkReplacing(p) ==
    /\ pc[p] = "associate"
    /\ Called(p, "associate_eip")
    /\ assocArgs' = [assocArgs EXCEPT ![p] = Append(@, <<eip[p].allocation_id, inst[p]>>)]
    /\ assoc' = {a \in assoc : a[2] # inst[p]} \cup {<<eip[p].allocation_id, inst[p]>>}
    /\ ReturnOk(p)
    /\ UNCHANGED <<file, addrs, created, assocInit, maxJitter, locVars, fileAtStart,
                   assocAtStart, prevOk, prevAllocated>>

\* Mutation: the first address of the lookup answer is associated instead of
\* the own record.
AssociateOkFirstFound(p) ==
    /\ pc[p] = "associate"
    /\ Called(p, "associate_eip")
    /\ LET id == IF Len(eips[p]) > 0 THEN eips[p][1].allocation_id
                 ELSE eip[p].allocation_id IN
         /\ assocArgs' = [assocArgs EXCEPT ![p] = Append(@, <<id, inst[p]>>)]
         /\ assoc' = assoc \cup {<<id, inst[p]>>}
    /\ ReturnOk(p)
    /\ UNCHANGED <<file, addrs, created, assocInit, maxJitter, locVars, fileAtStart,
                   assocAtStart, prevOk, prevAllocated>>

\* command.rs:215-218, 231-232
AssociateOk(p) ==
    /\ pc[p] = "associate"
    /\ Called(p, "associate_eip")
    /\ assocArgs' = [assocArgs EXCEPT ![p] = Append(@, <<eip[p].allocation_id, inst[p]>>)]
    /\ assoc' = assoc \cup {<<eip[p].allocation_id, inst[p]>>}
    /\ ReturnOk(p)
    /\ UNCHANGED <<file, addrs, created, assocInit, maxJitter, locVars, fileAtStart,
                   assocAtStart, prevOk, prevAllocated>>

\* Mutation: the error of associate_eip is dropped and the run reports success.
AssociateFailIgnored(p) ==
    /\ pc[p] = "associate"
    /\ Called(p, "associate_eip")
    /\ assocArgs' = [assocArgs EXCEPT ![p] = Append(@, <<eip[p].allocation_id, inst[p]>>)]
    /\ ReturnOk(p)
    /\ UNCHANGED <<envVars, maxJitter, locVars, fileAtStart, assocAtStart, prevOk, prevAllocated>>

\* command.rs:219-228
AssociateFail(p) ==
    /\ pc[p] = "associate"
    /\ Called(p, "associate_eip")
    /\ assocArgs' = [assocArgs EXCEPT ![p] = Append(@, <<eip[p].allocation_id, inst[p]>>)]
    /\ Fail(p, "associate_eip")
    /\ UNCHANGED <<envVars, maxJitter, locVars, fileAtStart, assocAtStart, prevOk, prevAllocated>>

\* The process is killed between two steps (reboot, supervisor, crash).
Kill(p) ==
    /\ pc[p] \notin {"idle", "done"}
    /\ pc' = [pc EXCEPT ![p] = "done"]
    /\ result' = [result EXCEPT ![p] = "killed"]
    /\ UNCHANGED <<envVars, maxJitter, locVars, histVars>>

\* -------------------------------------------------------- specifications
Next ==
    \/ \E p \in SeqProcs : Start(p)
    \/ \E p \in SeqProcs : LoadConfigOk(p)
    \/ \E p \in SeqProcs : LoadConfigFail(p)
    \/ \E p \in SeqProcs : ResolveOk(p)
    \/ \E p \in SeqProcs : ResolveFail(p)
    \/ \E p \in SeqProcs : Jitter(p)
    \/ \E p \in SeqProcs : Exists(p)
    \/ \E p \in SeqProcs : LoadOk(p)
    \/ \E p \in SeqProcs : LoadFail(p)
    \/ \E p \in SeqProcs : AllocateOk(p)
    \/ \E p \in SeqProcs : AllocateFail(p)
    \/ \E p \in SeqProcs : SyncOk(p)
    \/ \E p \in SeqProcs : SyncFail(p)
    \/ \E p \in SeqProcs : LookupOk(p)
    \/ \E p \in SeqProcs : LookupFail(p)
    \/ \E p \in SeqProcs : AssociateOk(p)
    \/ \E p \in SeqProcs : AssociateFail(p)

\* Runs one after the other, each running to its return.
Spec == Init /\ [][Next]_vars

NextCrash ==
    \/ Next
    \/ \E p \in SeqProcs : Kill(p)

\* Runs one after the other, each of which may be killed between two steps.
SpecCrash == Init /\ [][NextCrash]_vars

\* Two invocations for the same instance and record path, each started once
\* at any moment, their steps interleaved in any order; no record exists
\* before the first of them starts.
InitConc == Init /\ file = NoFile

\* main.rs:40 -- the first start of an invocation.
StartOnce(p) == pc[p] = "idle" /\ Start(p)

NextConc ==
    \/ \E p \in Procs : StartOnce(p)
    \/ \E p \in Procs : LoadConfigOk(p)
    \/ \E p \in Procs : LoadConfigFail(p)
    \/ \E p \in Procs : ResolveOk(p)
    \/ \E p \in Procs : ResolveFail(p)
    \/ \E p \in Procs : Jitter(p)
    \/ \E p \in Procs : Exists(p)
    \/ \E p \in Procs : LoadOk(p)
    \/ \E p \in Procs : LoadFail(p)
    \/ \E p \in Procs : AllocateOk(p)
    \/ \E p \in Procs : AllocateFail(p)
    \/ \E p \in Procs : SyncOk(p)
    \/ \E p \in Procs : SyncFail(p)
    \/ \E p \in Procs : LookupOk(p)
    \/ \E p \in Procs : LookupFail(p)
    \/ \E p \in Procs : AssociateOk(p)
    \/ \E p \in Procs : AssociateFail(p)

SpecConc == InitConc /\ [][NextConc]_vars

\* Runs keep being started, and every call that is tried again and again
\* eventually succeeds; kills and failed calls are under no obligation.
Fairness ==
    \A p \in SeqProcs :
        /\ WF_vars(Start(p))
        /\ SF_vars(LoadConfigOk(p))
        /\ SF_vars(ResolveOk(p))
        /\ SF_vars(Jitter(p))
        /\ SF_vars(Exists(p))
        /\ SF_vars(LoadOk(p))
        /\ SF_vars(AllocateOk(p))
        /\ SF_vars(SyncOk(p))
        /\ SF_vars(LookupOk(p))
        /\ SF_vars(AssociateOk(p))

\* The length of the sleep, the address value in the record and addresses
\* held by other instances have no part in recovery: one jitter setting,
\* records with the address value the provider reports, and no address on
\* another instance.
InitLive ==
    /\ Init
    /\ maxJitter = 1
    /\ file.state = "valid" => file.public_ip = IpOf(file.allocation_id)
    /\ \A a \in assoc : a[2] = ThisInstance

\* Runs one after the other, failed or killed at any step, under Fairness.
SpecLive == InitLive /\ [][NextCrash]_vars /\ Fairness

\* ---------------------------------------------------------------- claims
Range(seq) == {seq[i] : i \in 1..Len(seq)}

\* The lookup of the current run has returned its answer.
LookupReturned(p) ==
    /\ Count(calls[p], "describe_eips_by_instance_id") = 1
    /\ failedAt[p] # "describe_eips_by_instance_id"

\* C1: a run that follows a successful run, with nothing changed in between,
\* issues no allocate call and no associate call, finds its own allocation_id
\* in the lookup answer, and leaves the persisted record as it found it.
C1_Idempotent ==
    \A p \in SeqProcs : prevOk[p] =>
        /\ Count(calls[p], "allocate_eip") = 0
        /\ Count(calls[p], "associate_eip") = 0
        /\ file = fileAtStart[p]
        /\ file.state = "valid"
        /\ LookupReturned(p) =>
             /\ \E a \in Range(eips[p]) : a.allocation_id = file.allocation_id
             /\ ~need[p]
             /\ pc[p] = "done" /\ result[p] = "ok"

C1_Witness ==
    \E p \in SeqProcs :
        /\ prevOk[p] /\ pc[p] = "done" /\ result[p] = "ok"
        /\ Count(calls[p], "sync") = 1
        /\ LookupReturned(p)

\* C2: a run that starts while the record file exists never calls the
\* allocator, whatever the lookup answers.
C2_NoDuplicateAllocation ==
    \A p \in SeqProcs :
        fileAtStart[p].state # "absent" => Count(calls[p], "allocate_eip") = 0

C2_Witness ==
    \E p \in SeqProcs :
        /\ fileAtStart[p].state = "valid"
        /\ pc[p] = "done"
        /\ LookupReturned(p)
        /\ Len(eips[p]) > 0
        /\ need[p]

\* C3: over any sequence of runs, failed or killed at any step, the allocator
\* creates at most one address.
C3_AtMostOneCreated == Cardinality(created) <= 1

\* C4: a run that starts while the provider reports an address associated
\* with this instance issues no allocate call.
C4_NoAllocateWhenAssociated ==
    \A p \in SeqProcs :
        (\E a \in assocAtStart[p] : a[2] = ThisInstance)
            => Count(calls[p], "allocate_eip") = 0

\* C5: starting with no address associated with the instance, at most one
\* address is ever associated with it.
C5_AtMostOneAssociated ==
    (\A a \in assocInit : a[2] # ThisInstance)
        => Cardinality(AssociatedWith(ThisInstance)) <= 1

C5_Witness ==
    /\ \A a \in assocInit : a[2] # ThisInstance
    /\ Cardinality(AssociatedWith(ThisInstance)) = 1
    /\ created # {}
    /\ \E p \in SeqProcs : prevOk[p] /\ pc[p] = "done" /\ result[p] = "ok"

\* C6: when a run returns success the provider's association relation holds
\* the pair (allocation_id of the persisted record, identity of the instance);
\* a run in which a call failed returns failure.
C6_SuccessMeansReconciled ==
    \A p \in SeqProcs : pc[p] = "done" =>
        /\ result[p] = "ok" =>
             /\ file.state = "valid"
             /\ inst[p] = ThisInstance
             /\ <<file.allocation_id, inst[p]>> \in assoc
             /\ failedAt[p] = "none"
        /\ failedAt[p] # "none" => result[p] = "err"

C6_Witness ==
    \E p \in SeqProcs :
        /\ pc[p] = "done" /\ result[p] = "ok"
        /\ Count(calls[p], "associate_eip") = 1
        /\ Count(calls[p], "allocate_eip") = 1

\* The entries of a lookup answer with address values and tags blanked.
Blanked(evs) ==
    [i \in 1..Len(evs) |-> [evs[i] EXCEPT !.public_ip = 0, !.tags = {}]]

\* C7: for a non-empty lookup answer the run ends as already associated, with
\* no associate call, exactly when some entry carries the own allocation_id;
\* the order of the entries, their address values and tags, and the foreign
\* entries among them do not change the decision.
C7_MatchingRule ==
    \A p \in SeqProcs : (LookupReturned(p) /\ Len(eips[p]) > 0) =>
        LET match == \E a \in Range(eips[p]) : a.allocation_id = eip[p].allocation_id
            own(a) == a.allocation_id = eip[p].allocation_id
        IN  /\ match <=> (~need[p] /\ Count(calls[p], "associate_eip") = 0
                            /\ pc[p] = "done" /\ result[p] = "ok")
            /\ ~match => need[p]
            /\ \A o \in Orderings(Range(eips[p])) :
                 NeedAssociate(o, eip[p]) = need[p]
            /\ NeedAssociate(Blanked(eips[p]), eip[p]) = need[p]
            /\ NeedAssociate(eips[p], [eip[p] EXCEPT !.public_ip = 0]) = need[p]
            /\ match => NeedAssociate(SelectSeq(eips[p], own), eip[p]) = need[p]

C7_Witness ==
    \E p \in SeqProcs :
        /\ LookupReturned(p)
        /\ Len(eips[p]) = 2
        /\ eips[p][1].allocation_id # eip[p].allocation_id
        /\ eips[p][2].allocation_id = eip[p].allocation_id
        /\ eips[p][2].public_ip # eip[p].public_ip
        /\ pc[p] = "done" /\ result[p] = "ok"

\* C8: when the lookup answers with the empty set, exactly one associate call
\* is issued, with the record's allocation_id and the identity resolved at the
\* start of the run.
C8_EmptyLookupAssociates ==
    \A p \in SeqProcs : (LookupReturned(p) /\ Len(eips[p]) = 0) =>
        /\ need[p]
        /\ file.state = "valid" /\ file.allocation_id = eip[p].allocation_id
        /\ \/ pc[p] = "associate" /\ assocArgs[p] = <<>>
           \/ /\ pc[p] = "done"
              /\ Count(calls[p], "associate_eip") = 1
              /\ assocArgs[p] = << <<eip[p].allocation_id, ThisInstance>> >>

C8_Witness ==
    \E p \in SeqProcs :
        /\ LookupReturned(p) /\ Len(eips[p]) = 0
        /\ pc[p] = "done" /\ result[p] = "ok"
        /\ Count(calls[p], "load") = 1

\* C9: a run that finds a record file that does not parse ends in failure,
\* having issued no allocate, sync, lookup or associate call, and leaves the
\* file as it was.
C9_CorruptIsFatal ==
    \A p \in SeqProcs : fileAtStart[p].state = "corrupt" =>
        /\ Count(calls[p], "allocate_eip") = 0
        /\ Count(calls[p], "sync") = 0
        /\ Count(calls[p], "describe_eips_by_instance_id") = 0
        /\ Count(calls[p], "associate_eip") = 0
        /\ file = fileAtStart[p]
        /\ pc[p] = "done" =>
             /\ result[p] = "err"
             /\ failedAt[p] \in {"load_config", "fetch_instance_id", "load"}

C9_Witness ==
    \E p \in SeqProcs :
        /\ fileAtStart[p].state = "corrupt"
        /\ pc[p] = "done"
        /\ failedAt[p] = "load"

CallNames ==
    {"load_config", "fetch_instance_id", "sleep", "load", "allocate_eip", "sync",
     "describe_eips_by_instance_id", "associate_eip"}

\* C10: within one run every call is issued at most once, and a call that
\* fails is the last call of the run, which ends in failure: a failed lookup
\* is followed by no associate call, a failed allocate by no write of the file.
C10_FailuresTerminal ==
    \A p \in SeqProcs :
        /\ \A c \in CallNames : Count(calls[p], c) <= 1
        /\ Count(calls[p], "load") + Count(calls[p], "allocate_eip") <= 1
        /\ failedAt[p] # "none" =>
             /\ pc[p] = "done" /\ result[p] = "err"
             /\ calls[p][Len(calls[p])] = failedAt[p]
        /\ failedAt[p] = "describe_eips_by_instance_id" => assocArgs[p] = <<>>
        /\ failedAt[p] = "allocate_eip" =>
             /\ Count(calls[p], "sync") = 0
             /\ file = fileAtStart[p]

C10_Witness ==
    \E p \in SeqProcs :
        /\ failedAt[p] = "describe_eips_by_instance_id"
        /\ Count(calls[p], "allocate_eip") = 1
        /\ Count(calls[p], "sync") = 1
        /\ pc[p] = "done"

\* The place of each call in the sequence of execute.
StepRank(c) ==
    CASE c = "load_config" -> 0
      [] c = "fetch_instance_id" -> 1
      [] c = "sleep" -> 2
      [] c \in {"load", "allocate_eip"} -> 3
      [] c = "sync" -> 4
      [] c = "describe_eips_by_instance_id" -> 5
      [] c = "associate_eip" -> 6

\* Step 3 of the current run (load or allocate) has returned a record.
RecordObtained(p) ==
    /\ Count(calls[p], "load") + Count(calls[p], "allocate_eip") = 1
    /\ failedAt[p] \notin {"load", "allocate_eip"}

\* C11: the calls of a run occur in the order resolve identity, sleep, load or
\* allocate, persist, lookup, associate; a run that obtained its record, loaded
\* or freshly allocated, persists it exactly once, before the lookup and
\* before any associate call.
C11_FixedSequencing ==
    \A p \in SeqProcs :
        /\ \A i, j \in 1..Len(calls[p]) :
             i < j => StepRank(calls[p][i]) < StepRank(calls[p][j])
        /\ (RecordObtained(p) /\ pc[p] # "sync") => Count(calls[p], "sync") = 1
        /\ Count(calls[p], "sync") = 1 => RecordObtained(p)
        /\ Count(calls[p], "describe_eips_by_instance_id") = 1 =>
             /\ Count(calls[p], "sync") = 1
             /\ Count(calls[p], "fetch_instance_id") = 1
             /\ file.state = "valid" /\ file.allocation_id = eip[p].allocation_id
        /\ Count(calls[p], "associate_eip") = 1 => LookupReturned(p)

C11_Witness ==
    \E p \in SeqProcs :
        /\ pc[p] = "done" /\ result[p] = "ok"
        /\ calls[p] = <<"load_config", "fetch_instance_id", "sleep", "load", "sync",
                        "describe_eips_by_instance_id", "associate_eip">>

\* The last run returned success and the address of the persisted record is
\* associated with the instance.
Reconciled ==
    \E p \in SeqProcs :
        /\ pc[p] = "done" /\ result[p] = "ok"
        /\ file.state = "valid"
        /\ <<file.allocation_id, ThisInstance>> \in assoc

\* No record exists and the provider refuses every further allocation.
AllocateExhausted ==
    file.state = "absent" /\ Cardinality(created) >= MaxCreated

\* C12: a run that fails or is killed leaves the file and the provider as its
\* last completed step left them; and when runs keep being started and calls
\* eventually succeed, a failed or killed run with a record that is not
\* corrupt is followed by a run that returns success with the instance
\* associated with the address of the local record.
C12_Recovery ==
    /\ [][\A p \in SeqProcs :
            (pc[p] # "done" /\ pc'[p] = "done" /\ result'[p] \in {"err", "killed"})
                => UNCHANGED <<file, addrs, assoc>>]_vars
    /\ \A p \in SeqProcs :
         (pc[p] = "done" /\ result[p] \in {"err", "killed"} /\ file.state # "corrupt")
            ~> (Reconciled \/ AllocateExhausted)

C12_Witness ==
    \E p \in SeqProcs :
        /\ ~prevOk[p]
        /\ fileAtStart[p].state = "valid"
        /\ fileAtStart[p].allocation_id \in created
        /\ <<fileAtStart[p].allocation_id, ThisInstance>> \notin assocAtStart[p]
        /\ pc[p] = "done" /\ result[p] = "ok"
        /\ <<file.allocation_id, ThisInstance>> \in assoc

\* C13: when a run without a local record allocated an address and its
\* associate call failed, the record is on disk, and the next run issues no
\* allocate call and its associate call carries the allocation_id that the
\* first run allocated.
C13_AssociateRetried ==
    \A p \in SeqProcs : prevAllocated[p] # 0 =>
        /\ fileAtStart[p] = FileOf([allocation_id |-> prevAllocated[p],
                                    public_ip |-> IpOf(prevAllocated[p])])
        /\ file = fileAtStart[p]
        /\ Count(calls[p], "allocate_eip") = 0
        /\ \A i \in 1..Len(assocArgs[p]) :
             assocArgs[p][i] = <<prevAllocated[p], ThisInstance>>
        /\ LookupReturned(p) =>
             /\ need[p]
             /\ pc[p] = "associate" \/ Len(assocArgs[p]) = 1

C13_Witness ==
    \E p \in SeqProcs :
        /\ prevAllocated[p] # 0
        /\ pc[p] = "done" /\ result[p] = "ok"
        /\ assocArgs[p] = << <<prevAllocated[p], ThisInstance>> >>

\* C14: when two runs that started without a local record have both returned
\* success, whatever the interleaving of their steps, at most one address was
\* allocated in total and the allocation_id of the persisted record is
\* associated with the instance.
C14_ConcurrentRunsTolerated ==
    (\A p \in Procs : pc[p] = "done" /\ result[p] = "ok")
        => /\ Cardinality(created) <= 1
           /\ file.state = "valid"
           /\ <<file.allocation_id, ThisInstance>> \in assoc

\* The calls of a run that touch the record or the provider's addresses.
IsCoreCall(c) ==
    c \in {"load", "allocate_eip", "sync", "describe_eips_by_instance_id",
           "associate_eip"}

\* C15: a run that starts without a local record, gets an empty lookup answer
\* and sees no call fail issues one allocate call with the id tag pair and
\* the kind tag pair, one persist, one lookup and one associate call, in that
\* order, and returns success.
C15_FirstRun ==
    \A p \in SeqProcs :
        (/\ fileAtStart[p] = NoFile
         /\ pc[p] = "done" /\ failedAt[p] = "none"
         /\ LookupReturned(p) /\ Len(eips[p]) = 0) =>
            /\ result[p] = "ok"
            /\ SelectSeq(calls[p], IsCoreCall)
                 = <<"allocate_eip", "sync", "describe_eips_by_instance_id",
                     "associate_eip">>
            /\ \E a \in addrs :
                 /\ a.allocation_id = eip[p].allocation_id
                 /\ a.tags = {<<"Id", "TEST-ID">>, <<"Kind", "aws-ip-provisioner">>}
            /\ eip[p].allocation_id \in created
            /\ file = FileOf(eip[p])
            /\ assocArgs[p] = << <<eip[p].allocation_id, ThisInstance>> >>
            /\ <<eip[p].allocation_id, ThisInstance>> \in assoc

C15_Witness ==
    \E p \in SeqProcs :
        /\ fileAtStart[p] = NoFile /\ assocAtStart[p] = {}
        /\ pc[p] = "done" /\ result[p] = "ok"
        /\ Len(eips[p]) = 0
        /\ Count(calls[p], "allocate_eip") = 1
        /\ Count(calls[p], "associate_eip") = 1

\* C16: with max_jitter N > 0 the sleep lasts d seconds with 0 <= d < N; with
\* N = 0 there is no sleep call; a sleep call is made only for d > 0, right
\* after the identity was resolved and before any load, allocate, persist,
\* lookup or associate call.
C16_JitterBound ==
    \A p \in SeqProcs :
        /\ sleep_sec[p] >= 0
        /\ maxJitter > 0 => sleep_sec[p] < maxJitter
        /\ maxJitter = 0 => (sleep_sec[p] = 0 /\ Count(calls[p], "sleep") = 0)
        /\ Count(calls[p], "sleep") = (IF sleep_sec[p] > 0 THEN 1 ELSE 0)
        /\ \A i \in 1..Len(calls[p]) : calls[p][i] = "sleep" =>
             /\ i > 1 /\ calls[p][i - 1] = "fetch_instance_id"
             /\ \A j \in 1..(i - 1) : ~IsCoreCall(calls[p][j])

C16_Witness ==
    \E p \in SeqProcs :
        /\ maxJitter = 3 /\ sleep_sec[p] = 2
        /\ Count(calls[p], "sleep") = 1
        /\ pc[p] = "done" /\ result[p] = "ok"

\* C17: no step removes or changes an association or an address; a step adds
\* to the association relation at most the pair (own allocation_id, identity
\* of the instance), and to the address set at most one newly allocated
\* address.
C17_ForeignNeverRemoved ==
    [][/\ assoc \subseteq assoc'
       /\ \A a \in assoc' \ assoc :
            \E p \in SeqProcs :
                /\ a = <<eip[p].allocation_id, ThisInstance>>
                /\ file.state = "valid" /\ file.allocation_id = a[1]
       /\ addrs \subseteq addrs'
       /\ Cardinality(addrs' \ addrs) <= 1
       /\ \A a \in addrs' \ addrs :
            /\ a.allocation_id \in created' \ created
            /\ \A b \in addrs : b.allocation_id # a.allocation_id]_vars

C17_Witness ==
    \E p \in SeqProcs :
        /\ pc[p] = "done" /\ result[p] = "ok"
        /\ Count(calls[p], "allocate_eip") = 1
        /\ \E a \in assocInit : a[2] = ThisInstance /\ a \in assoc
        /\ <<eip[p].allocation_id, ThisInstance>> \in assoc \ assocInit

\* C18: when the lookup answer is not empty and no entry carries the own
\* allocation_id, exactly one associate call is issued, with the own record's
\* allocation_id and never with the allocation_id of an entry of the answer.
C18_NonMatchingAssociatesOwn ==
    \A p \in SeqProcs :
        (/\ LookupReturned(p) /\ Len(eips[p]) > 0
         /\ \A a \in Range(eips[p]) : a.allocation_id # eip[p].allocation_id) =>
            /\ need[p]
            /\ \/ pc[p] = "associate" /\ assocArgs[p] = <<>>
               \/ /\ pc[p] = "done"
                  /\ Count(calls[p], "associate_eip") = 1
                  /\ Len(assocArgs[p]) = 1
                  /\ assocArgs[p][1][1] = file.allocation_id
                  /\ assocArgs[p][1][1] = eip[p].allocation_id
                  /\ assocArgs[p][1][2] = ThisInstance
                  /\ \A a \in Range(eips[p]) : a.allocation_id # assocArgs[p][1][1]

C18_Witness ==
    \E p \in SeqProcs :
        /\ LookupReturned(p) /\ Len(eips[p]) = 2
        /\ pc[p] = "done" /\ result[p] = "ok"
        /\ Len(assocArgs[p]) = 1
        /\ Cardinality(AssociatedWith(ThisInstance)) = 3

\* The lookup answer of the current run holds the own allocation_id.
Matched(p) ==
    /\ LookupReturned(p)
    /\ \E a \in Range(eips[p]) : a.allocation_id = eip[p].allocation_id

\* The reconciler state of the current run, read off the run: Unknown until
\* the lookup has answered; then, by the content of the answer, already
\* associated or in need of association; Done once the run returned success.
\* (Checked is passed within the step that receives the answer.)
RState(p) ==
    IF ~LookupReturned(p) THEN "Unknown"
    ELSE IF pc[p] = "done" /\ result[p] = "ok" THEN "Done"
    ELSE IF Matched(p) THEN "AlreadyAssociated"
    ELSE "NeedsAssociation"

RRank(st) ==
    CASE st = "Unknown" -> 0
      [] st \in {"AlreadyAssociated", "NeedsAssociation"} -> 2
      [] st = "Done" -> 3

\* C19: within a run the reconciler state only moves forward, from Unknown
\* to one of already-associated or needs-association and then Done, never
\* changing branch; an associate call is issued only in the needs-association
\* branch, after the lookup of the same run answered, and never in a run
\* whose lookup answer held the own allocation_id.
C19_ReconcilerOrder ==
    /\ [](\A p \in SeqProcs :
            /\ (pc[p] = "associate" \/ Count(calls[p], "associate_eip") > 0) =>
                 /\ LookupReturned(p)
                 /\ ~Matched(p)
                 /\ calls[p][Len(calls[p]) - (IF pc[p] = "associate" THEN 0 ELSE 1)]
                      = "describe_eips_by_instance_id"
            /\ Matched(p) =>
                 /\ Count(calls[p], "associate_eip") = 0
                 /\ RState(p) = "Done"
            /\ (RState(p) = "Done" /\ ~Matched(p)) =>
                 /\ Count(calls[p], "associate_eip") = 1
                 /\ failedAt[p] = "none")
    /\ [][\A p \in SeqProcs : pc'[p] # "config" =>
            /\ RRank(RState(p)') >= RRank(RState(p))
            /\ (LookupReturned(p) => (Matched(p)' <=> Matched(p)))]_vars

C19_Witness ==
    \E p \in SeqProcs :
        /\ RState(p) = "Done"
        /\ ~Matched(p)
        /\ Len(eips[p]) > 0
        /\ Count(calls[p], "associate_eip") = 1

\* C20: once a well-formed record is on disk, every later step of every run,
\* successful, failed or killed, leaves a well-formed record with the same
\* allocation_id there, and every associate call of a run that found the
\* record carries that allocation_id.
C20_DurableHandle ==
    /\ [][file.state = "valid" =>
            (file'.state = "valid" /\ file'.allocation_id = file.allocation_id)]_vars
    /\ [](\A p \in SeqProcs : fileAtStart[p].state = "valid" =>
            /\ file.state = "valid"
            /\ file.allocation_id = fileAtStart[p].allocation_id
            /\ \A i \in 1..Len(assocArgs[p]) :
                 assocArgs[p][i] = <<fileAtStart[p].allocation_id, ThisInstance>>)

C20_Witness ==
    \E p \in SeqProcs :
        /\ fileAtStart[p].state = "valid"
        /\ fileAtStart[p].allocation_id \in created
        /\ ~prevOk[p]
        /\ Len(assocArgs[p]) = 1
        /\ pc[p] = "done" /\ result[p] = "err"

====
